---- MODULE Spec2Model ----
(***************************************************************************)
(* KaleidoID embedding matching engine (src/face_recognizer.py) together   *)
(* with the Persistent Store calls it makes (src/face_database.py) and the *)
(* Presentation Layer handlers that drive it (src/main_window.py).         *)
(*                                                                         *)
(* Representation of an embedding.  A numpy array of n float32 numbers is  *)
(* modelled by the record [len |-> n, blk |-> <<a, b>>]: the array of      *)
(* length n whose first n/2 components all equal a and whose last n/2      *)
(* components all equal b.  On such arrays mean, standard deviation, dot   *)
(* product and norm are computed exactly:                                  *)
(*     mean = (a+b)/2            std  = |a-b|/2                            *)
(*     dot  = (n/2)(a1a2+b1b2)   norm = sqrt((n/2)(a*a+b*b))               *)
(* so the cosine of two arrays is the cosine of their blk pairs.  Python's *)
(* None for an array is NoneEmb.                                           *)
(*                                                                         *)
(* Representation of a similarity.  _calculate_similarity returns the real *)
(* number (cos+1)/2.  It is modelled exactly by the record                 *)
(* [sgn, num, den] standing for cos = sgn * sqrt(num/den) with num/den a   *)
(* reduced fraction, so two similarities are equal iff their records are.  *)
(* Floating-point rounding is not modelled.                                *)
(***************************************************************************)
EXTENDS Integers, Sequences, FiniteSets, TLC

(* ------------------------------------------------------------------ *)
(* Bounds of the model                                                 *)
(* ------------------------------------------------------------------ *)
\* longest Gallery the model builds (the lists are unbounded in the code)
MaxGallery == 3

\* longest Gallery built where every operation of the engine is interleaved
\* with changes of the threshold
MaxConfigGallery == 1

\* most update_camera callbacks the timer is let hold at once (root.after
\* itself sets no limit)
MaxPending == 2

(* ------------------------------------------------------------------ *)
(* Constants of the program                                            *)
(* ------------------------------------------------------------------ *)
\* self.embedding_size = 468 * 3
embedding_size == 1404

\* Python's None where an integer id is expected (sqlite row ids start at 1)
None == 0

\* Python's None where an embedding is expected
NoneEmb == [len |-> 0, blk |-> <<>>]

\* recognition_threshold is kept in tenths: 6 stands for 0.6
default_threshold == 6

Emb(n, a, b) == [len |-> n, blk |-> <<a, b>>]

(* ------------------------------------------------------------------ *)
(* Arithmetic helpers                                                  *)
(* ------------------------------------------------------------------ *)
Abs(x) == IF x < 0 THEN -x ELSE x

Sign(x) == IF x > 0 THEN 1 ELSE IF x < 0 THEN -1 ELSE 0

RECURSIVE GCD(_, _)
GCD(a, b) == IF b = 0 THEN a ELSE GCD(b, a % b)

Max(a, b) == IF a >= b THEN a ELSE b

Min(a, b) == IF a <= b THEN a ELSE b

\* the real number s * sqrt(n/d), n >= 0, d > 0, in canonical form
Cos(s, n, d) ==
    IF s = 0 \/ n = 0 THEN [sgn |-> 0, num |-> 0, den |-> 1]
    ELSE [sgn |-> s, num |-> n \div GCD(n, d), den |-> d \div GCD(n, d)]

\* x > y for two reals in canonical form
Greater(x, y) ==
    IF x.sgn # y.sgn THEN x.sgn > y.sgn
    ELSE IF x.sgn = 0 THEN FALSE
    ELSE IF x.sgn = 1 THEN x.num * y.den > y.num * x.den
    ELSE x.num * y.den < y.num * x.den

\* similarity 0.0 is cosine -1, similarity 1.0 is cosine 1, 0.5 is cosine 0
Sim00 == Cos(-1, 1, 1)

Sim10 == Cos(1, 1, 1)

Sim05 == Cos(0, 0, 1)

\* the similarity t/10 of a threshold kept in tenths: cos = (t - 5)/5
SimOfTenths(t) == Cos(Sign(t - 5), (t - 5) * (t - 5), 25)

(* ------------------------------------------------------------------ *)
(* Input pools                                                         *)
(* ------------------------------------------------------------------ *)
\* display names are kept as sequences of words: joining two names with a
\* space and stripping the result is the concatenation of their words
NoName == <<>>

\* rows of table people (id, last_name, first_name), all active
People == <<[id |-> 1, last_name |-> <<"Ivanov">>, first_name |-> <<"Ivan">>],
            [id |-> 2, last_name |-> <<"Petrov">>, first_name |-> NoName]>>

PersonIds == {People[i].id : i \in 1..Len(People)}

\* person_data of a caller that knows no id: a provisional entry
Guest == [id |-> None, last_name |-> <<"Guest">>, first_name |-> NoName]

\* ids of the rows table person_photos may hold, and the owner of each
PhotoIds == {1, 2, 3}

OwnerOf(p) == IF p = 2 THEN 2 ELSE 1

\* An image is what face_mesh.process reports for it: the raw landmark array
\* of every face found (468 landmarks make 1404 numbers, 478 refined
\* landmarks make 1434).  ImgFlat is a face whose coordinates are all equal,
\* the case of a zero standard deviation.
ImgFaceA == [mesh |-> <<Emb(embedding_size, 2, 1)>>]

ImgFaceB == [mesh |-> <<Emb(embedding_size, 1, 3)>>]

ImgFlat == [mesh |-> <<Emb(embedding_size, 1, 1)>>]

ImgRefined == [mesh |-> <<Emb(embedding_size + 30, 2, 1)>>]

ImgNoFace == [mesh |-> <<>>]

\* the image stored in column image_data of each photo row
ImageOf(p) == IF p = 1 THEN ImgFaceA ELSE IF p = 2 THEN ImgFaceB ELSE ImgNoFace

\* embeddings a caller may hand to recognize_face
Vectors == {Emb(embedding_size, 1, -1), Emb(embedding_size, 3, 1),
            Emb(embedding_size, 0, 0), Emb(embedding_size - 2, 1, -1), NoneEmb}

(* ------------------------------------------------------------------ *)
(* Embedding Extractor                                                 *)
(* ------------------------------------------------------------------ *)
\* twice the mean and twice the standard deviation of a block array
Mean2(e) == e.blk[1] + e.blk[2]

Std2(e) == Abs(e.blk[1] - e.blk[2])

normalize_embedding(e) ==
    IF Std2(e) > 0
    THEN Emb(e.len, (2 * e.blk[1] - Mean2(e)) \div Std2(e),
                    (2 * e.blk[2] - Mean2(e)) \div Std2(e))
    ELSE Emb(e.len, (2 * e.blk[1] - Mean2(e)) \div 2,
                    (2 * e.blk[2] - Mean2(e)) \div 2)

\* an extraction that takes a landmark array of any length
extract_embedding_any_count(image) ==
    IF Len(image.mesh) > 0 THEN normalize_embedding(image.mesh[1]) ELSE NoneEmb

\* first face only; None when no face or when the landmark count is not D
extract_embedding(image) ==
    IF Len(image.mesh) > 0 /\ image.mesh[1].len = embedding_size
    THEN normalize_embedding(image.mesh[1])
    ELSE NoneEmb

\* bytes are [decodable, image]: cv2.imdecode returns None for the others
extract_embedding_from_bytes(bytes) ==
    IF ~bytes.decodable THEN NoneEmb ELSE extract_embedding(bytes.image)

extract_embedding_from_pil(pil_image) == extract_embedding(pil_image)

\* extract_embedding_with_landmarks: the same embedding, with the number of
\* 2D points returned for drawing (None, 0 here, when there is no embedding)
extract_embedding_with_landmarks(image) ==
    [embedding |-> extract_embedding(image),
     landmarks |-> IF extract_embedding(image) # NoneEmb
                   THEN image.mesh[1].len \div 3 ELSE None]

(* ------------------------------------------------------------------ *)
(* Face detection in a frame                                           *)
(*                                                                     *)
(* A frame is what the camera and face_detection report for it:        *)
(* whether cap.read() returned it at all (a frame that was not read is *)
(* Python's None), its width and height, and for every detection, in   *)
(* detection order, the box in pixels before padding and what          *)
(* face_mesh reports for the padded region of the frame (roi).         *)
(* ------------------------------------------------------------------ *)
\* padding = 20
padding == 20

Detection(x, y, width, height, roi) ==
    [x |-> x, y |-> y, width |-> width, height |-> height, roi |-> roi]

NoFrame == [readable |-> FALSE, width |-> 0, height |-> 0, detections |-> <<>>]

Frame(detections) ==
    [readable |-> TRUE, width |-> 640, height |-> 480, detections |-> detections]

\* the padded box of one detection, clipped to the image
face_bbox(image, d) ==
    LET x == Max(0, d.x - padding)
        y == Max(0, d.y - padding)
    IN <<x, y, Min(image.width - x, d.width + 2 * padding),
               Min(image.height - y, d.height + 2 * padding)>>

\* one face per detection; [] when the image is None (the error is caught)
detect_faces(image) ==
    IF ~image.readable THEN <<>>
    ELSE [i \in 1..Len(image.detections) |->
             [bbox |-> face_bbox(image, image.detections[i]), index |-> i]]

\* image[y:y+h, x:x+w] for the box of a face
face_roi(image, face) == image.detections[face.index].roi

(* ------------------------------------------------------------------ *)
(* Matcher                                                             *)
(* ------------------------------------------------------------------ *)
Dot(x, y) == x.blk[1] * y.blk[1] + x.blk[2] * y.blk[2]

Norm2(x) == Dot(x, x)

\* a similarity that takes the absolute value of the cosine
calculate_similarity_unsigned(emb1, emb2) ==
    IF emb1.len # emb2.len THEN Sim00
    ELSE IF Norm2(emb1) = 0 \/ Norm2(emb2) = 0 THEN Sim05
    ELSE Cos(1, Dot(emb1, emb2) * Dot(emb1, emb2), Norm2(emb1) * Norm2(emb2))

\* (cos + 1) / 2.  A zero array divided by (0 + 1e-10) stays zero, so its
\* cosine with anything is 0; arrays of different shapes make np.dot raise,
\* which the handler turns into 0.0.
calculate_similarity(emb1, emb2) ==
    IF emb1.len # emb2.len THEN Sim00
    ELSE IF Norm2(emb1) = 0 \/ Norm2(emb2) = 0 THEN Sim05
    ELSE Cos(Sign(Dot(emb1, emb2)), Dot(emb1, emb2) * Dot(emb1, emb2),
             Norm2(emb1) * Norm2(emb2))

\* a scan that forgets the threshold
ScanStepNoThreshold(best, similarity, tau, id, photo) ==
    IF Greater(similarity, best.conf)
    THEN [id |-> id, conf |-> similarity, photo |-> photo]
    ELSE best

\* a scan that forgets the running best
ScanStepNoBest(best, similarity, tau, id, photo) ==
    IF Greater(similarity, SimOfTenths(tau))
    THEN [id |-> id, conf |-> similarity, photo |-> photo]
    ELSE best

\* a scan that lets an equal similarity replace the running best
ScanStepTieReplaces(best, similarity, tau, id, photo) ==
    IF ~Greater(best.conf, similarity) /\ Greater(similarity, SimOfTenths(tau))
    THEN [id |-> id, conf |-> similarity, photo |-> photo]
    ELSE best

\* one iteration of the scan of recognize_face
ScanStep(best, similarity, tau, id, photo) ==
    IF Greater(similarity, best.conf) /\ Greater(similarity, SimOfTenths(tau))
    THEN [id |-> id, conf |-> similarity, photo |-> photo]
    ELSE best

RECURSIVE Scan(_, _, _, _, _, _, _)
Scan(best, embedding, embs, ids, pids, tau, i) ==
    IF i > Len(embs) THEN best
    ELSE Scan(ScanStep(best, calculate_similarity(embedding, embs[i]), tau,
                       ids[i], pids[i]),
              embedding, embs, ids, pids, tau, i + 1)

NoMatch == [id |-> None, conf |-> Sim00, photo |-> None]

recognize_face(embedding, embs, ids, pids, tau) ==
    IF embedding = NoneEmb \/ Len(embs) = 0 THEN NoMatch
    ELSE Scan(NoMatch, embedding, embs, ids, pids, tau, 1)

\* the result built for one face
face_result(image, face, extract_landmarks, embs, ids, pids, tau) ==
    LET e == IF extract_landmarks
             THEN extract_embedding_with_landmarks(face_roi(image, face))
             ELSE [embedding |-> extract_embedding(face_roi(image, face)),
                   landmarks |-> None]
        m == recognize_face(e.embedding, embs, ids, pids, tau)
    IN [bbox |-> face.bbox, person_id |-> m.id,
        recognition_confidence |-> m.conf, photo_id |-> m.photo,
        landmarks |-> e.landmarks]

\* [raised, results] of recognize_face_in_image.  The for loop only unpacks
\* the box of each face; the block that builds a result stands after the
\* loop, so it runs once, on the variables the last iteration left.  With
\* no face these variables were never bound and reading x raises
\* UnboundLocalError, which nothing catches.
recognize_face_in_image(image, extract_landmarks, embs, ids, pids, tau) ==
    LET faces == detect_faces(image)
    IN IF Len(faces) = 0 THEN [raised |-> TRUE, results |-> <<>>]
       ELSE LET face == faces[Len(faces)]
                x == face.bbox[1]
                y == face.bbox[2]
                w == face.bbox[3]
                h == face.bbox[4]
            IN [raised |-> FALSE,
                results |->
                    IF x >= 0 /\ y >= 0 /\ x + w <= image.width
                        /\ y + h <= image.height
                    THEN <<face_result(image, face, extract_landmarks,
                                       embs, ids, pids, tau)>>
                    ELSE <<>>]

(* ------------------------------------------------------------------ *)
(* Embedding Gallery and Extraction Cache                              *)
(*                                                                     *)
(* The operators below work on a record g of the engine's fields:      *)
(*   g.embs, g.names, g.ids, g.pids   the four parallel lists          *)
(*   g.cache                          _embedding_cache, a function     *)
(*                                    from the cached photo ids        *)
(*   g.entries                        history: the Gallery as one list *)
(*                                    of entries, kept by whole-entry  *)
(*                                    insert / delete / clear          *)
(* ------------------------------------------------------------------ *)
Entry(embedding, id, name, photo) ==
    [emb |-> embedding, id |-> id, name |-> name, photo |-> photo]

display_name(person) == person.last_name \o person.first_name

\* a function with key k set to v, k being in its domain or not
Put(f, k, v) == [x \in DOMAIN f \cup {k} |-> IF x = k THEN v ELSE f[x]]

\* a function without key k
Drop(f, k) == [x \in DOMAIN f \ {k} |-> f[x]]

\* list.pop(index)
Pop(s, index) == SubSeq(s, 1, index - 1) \o SubSeq(s, index + 1, Len(s))

\* a list.index that finds the last occurrence
IndexOfLast(s, x) ==
    CHOOSE i \in 1..Len(s) : s[i] = x /\ \A j \in (i + 1)..Len(s) : s[j] # x

\* list.index(x): position of the first occurrence
IndexOf(s, x) == CHOOSE i \in 1..Len(s) : s[i] = x /\ \A j \in 1..(i - 1) : s[j] # x

Contains(s, x) == \E i \in 1..Len(s) : s[i] = x

\* the id stored for an entry: the caller's, or len(known_ids) + 1
entry_person_id(ids, person_data) ==
    IF person_data.id = None THEN Len(ids) + 1 ELSE person_data.id

add_embedding_to_memory(g, embedding, person_data, photo_id) ==
    [g EXCEPT !.embs = Append(@, embedding),
              !.names = Append(@, display_name(person_data)),
              !.ids = Append(@, entry_person_id(g.ids, person_data)),
              !.pids = Append(@, photo_id),
              !.entries = Append(@, Entry(embedding,
                                          entry_person_id(g.ids, person_data),
                                          display_name(person_data), photo_id))]

\* the four lists after clear_embeddings; the cache is not touched
clear_embeddings(g) ==
    [g EXCEPT !.embs = <<>>, !.names = <<>>, !.ids = <<>>, !.pids = <<>>,
              !.entries = <<>>]

\* the history's own removal: the first entry of photo p, as a whole
WithoutFirst(entries, p) ==
    IF \E i \in 1..Len(entries) : entries[i].photo = p
    THEN Pop(entries, CHOOSE i \in 1..Len(entries) :
                         /\ entries[i].photo = p
                         /\ \A j \in 1..(i - 1) : entries[j].photo # p)
    ELSE entries

\* a removal that pops known_ids at its end instead of at index
pop_entry_ids_at_end(g, index) ==
    [g EXCEPT !.embs = Pop(@, index), !.names = Pop(@, index),
              !.ids = Pop(@, Len(g.ids)), !.pids = Pop(@, index)]

\* the lists after popping position index from each of them
pop_entry(g, index) ==
    [g EXCEPT !.embs = Pop(@, index), !.names = Pop(@, index),
              !.ids = Pop(@, index), !.pids = Pop(@, index)]

\* [g, ok]: the engine after remove_embedding_by_photo_id and its result
remove_embedding_by_photo_id(g, photo_id) ==
    IF Contains(g.pids, photo_id)
    THEN [g |-> [pop_entry(g, IndexOf(g.pids, photo_id))
                   EXCEPT !.cache = Drop(@, photo_id),
                          !.entries = WithoutFirst(@, photo_id)],
          ok |-> TRUE]
    ELSE [g |-> g, ok |-> FALSE]

(* ------------------------------------------------------------------ *)
(* Training / Sync Controller                                          *)
(* ------------------------------------------------------------------ *)
\* the part the three train_from_* share: [g, ok]
train_with(g, embedding, person_data, photo_id) ==
    IF embedding # NoneEmb
    THEN [g |-> add_embedding_to_memory(g, embedding, person_data, photo_id),
          ok |-> TRUE]
    ELSE [g |-> g, ok |-> FALSE]

train_from_image(g, image, person_data, photo_id) ==
    train_with(g, extract_embedding(image), person_data, photo_id)

train_from_bytes(g, bytes, person_data, photo_id) ==
    train_with(g, extract_embedding_from_bytes(bytes), person_data, photo_id)

train_from_pil(g, pil_image, person_data, photo_id) ==
    train_with(g, extract_embedding_from_pil(pil_image), person_data, photo_id)

\* an import that takes an embedding of any length
add_existing_embedding_any_length(g, embedding, person_data, photo_id) ==
    IF embedding # NoneEmb
    THEN [g |-> add_embedding_to_memory(g, embedding, person_data, photo_id),
          ok |-> TRUE]
    ELSE [g |-> g, ok |-> FALSE]

add_existing_embedding(g, embedding, person_data, photo_id) ==
    IF embedding # NoneEmb /\ embedding.len = embedding_size
    THEN [g |-> add_embedding_to_memory(g, embedding, person_data, photo_id),
          ok |-> TRUE]
    ELSE [g |-> g, ok |-> FALSE]

(* ------------------------------------------------------------------ *)
(* Persistent Store (table person_photos)                              *)
(*                                                                     *)
(* db[p] is row p: whether it exists and its column face_embedding,    *)
(* held as the array np.frombuffer(..., float32) makes of the bytes    *)
(* (NoneEmb for NULL).  Owner and image of a row never change.         *)
(*                                                                     *)
(* A Store call may raise (get_connection re-raises every sqlite       *)
(* error, Image.open raises on bytes it cannot decode).  The call that *)
(* raises during one engine operation is the operation's input fault:  *)
(*   [on |-> "none"]                    no call raises                 *)
(*   [on |-> "people"]                  get_all_people                 *)
(*   [on |-> "photos", id |-> person]   get_person_photos(person)      *)
(*   [on |-> "photo", id |-> photo]     the call made for row photo:   *)
(*                                      get_photo_embedding(photo) or  *)
(*                                      get_photo_as_image(photo)      *)
(*   [on |-> "update", id |-> photo]    update_photo_embedding(photo), *)
(*                                      which catches the error itself *)
(*                                      and returns False              *)
(* ------------------------------------------------------------------ *)
NoFault == [on |-> "none", id |-> None]

Faults ==
    {NoFault, [on |-> "people", id |-> None]}
    \cup {[on |-> "photos", id |-> i] : i \in PersonIds}
    \cup {[on |-> "photo", id |-> p] : p \in PhotoIds}
    \cup {[on |-> "update", id |-> p] : p \in PhotoIds}

Raises(fault, on, id) == fault.on = on /\ fault.id = id

RECURSIVE Descending(_)
Descending(S) ==
    IF S = {} THEN <<>>
    ELSE LET m == CHOOSE x \in S : \A y \in S : y <= x
         IN <<m>> \o Descending(S \ {m})

\* rows of one person, newest first (ORDER BY ... created_date DESC; no row
\* is flagged is_primary)
get_person_photos(db, person_id) ==
    LET ids == Descending({p \in PhotoIds : db[p].exists /\ OwnerOf(p) = person_id})
    IN [i \in 1..Len(ids) |->
           [id |-> ids[i], face_embedding |-> db[ids[i]].face_embedding]]

get_photo_embedding(db, photo_id) ==
    IF db[photo_id].exists THEN db[photo_id].face_embedding ELSE NoneEmb

\* an image, or NoImage for Python's None
NoImage == [mesh |-> <<>>, missing |-> TRUE]

get_photo_as_image(db, photo_id) ==
    IF db[photo_id].exists THEN ImageOf(photo_id) ELSE NoImage

\* UPDATE ... WHERE id=?: touches the row if it exists; an error is caught
\* and leaves the table as it was
update_photo_embedding(db, photo_id, embedding, fault) ==
    IF db[photo_id].exists /\ ~Raises(fault, "update", photo_id)
    THEN [db EXCEPT ![photo_id].face_embedding = embedding]
    ELSE db

delete_photo(db, photo_id) ==
    [db EXCEPT ![photo_id] = [exists |-> FALSE, face_embedding |-> NoneEmb]]

(* Table people.  people[id] is column is_active of row id; the rows    *)
(* themselves (People) are never removed: delete_person only clears the *)
(* flag.                                                                *)
\* UPDATE people SET is_active=0 WHERE id=?
delete_person(people, person_id) == [people EXCEPT ![person_id] = FALSE]

\* SELECT ... WHERE id=? AND is_active=1: the row, or None (NoPerson)
NoPerson == [id |-> None, last_name |-> NoName, first_name |-> NoName]

get_person(people, person_id) ==
    IF person_id \in DOMAIN people /\ people[person_id]
    THEN CHOOSE r \in {People[i] : i \in 1..Len(People)} : r.id = person_id
    ELSE NoPerson

\* table recognition_sessions, kept as the set of the person ids it holds
\* a row for
add_recognition_session(sessions, person_id) == sessions \cup {person_id}

(* ------------------------------------------------------------------ *)
(* batch_train_person                                                  *)
(*                                                                     *)
(* The loop works on st = [g, db, count, raised, extractions, unsaved,  *)
(* reads, extracted]: engine, Store, trained_count, whether a Store    *)
(* call has raised (the loop is then left through the handler), the    *)
(* number of extractor runs, whether update_photo_embedding has        *)
(* returned False, the photos get_photo_embedding or                   *)
(* get_photo_as_image was called for, and the photos the extractor was *)
(* run on.                                                             *)
(* ------------------------------------------------------------------ *)
Counted(st, r) ==
    [st EXCEPT !.g = r.g, !.count = IF r.ok THEN @ + 1 ELSE @]

\* branch 1: the photo id is a key of the cache
batch_cached(st, photo, person_data) ==
    Counted(st, add_existing_embedding(st.g, st.g.cache[photo.id],
                                       person_data, photo.id))

\* a branch 2 that appends the stored embedding without validating it
batch_stored_unchecked(st, photo, person_data, fault) ==
    IF Raises(fault, "photo", photo.id)
    THEN [st EXCEPT !.raised = TRUE, !.reads = @ \cup {photo.id}]
    ELSE LET embedding == get_photo_embedding(st.db, photo.id)
             read == [st EXCEPT !.reads = @ \cup {photo.id}]
         IN IF embedding = NoneEmb THEN read
            ELSE [read EXCEPT
                    !.g = [add_embedding_to_memory(st.g, embedding, person_data,
                                                   photo.id)
                             EXCEPT !.cache = Put(@, photo.id, embedding)],
                    !.count = @ + 1]

\* branch 2: the row carries a stored embedding
batch_stored(st, photo, person_data, fault) ==
    IF Raises(fault, "photo", photo.id)
    THEN [st EXCEPT !.raised = TRUE, !.reads = @ \cup {photo.id}]
    ELSE LET embedding == get_photo_embedding(st.db, photo.id)
             r == add_existing_embedding(st.g, embedding, person_data, photo.id)
             read == [st EXCEPT !.reads = @ \cup {photo.id}]
         IN IF embedding = NoneEmb THEN read
            ELSE IF ~r.ok THEN [read EXCEPT !.g = r.g]
            ELSE [read EXCEPT !.g = [r.g EXCEPT !.cache = Put(@, photo.id, embedding)],
                              !.count = @ + 1]

\* branch 3: train from the image, extract again, save and cache
batch_extracted(st, photo, person_data, fault) ==
    IF Raises(fault, "photo", photo.id)
    THEN [st EXCEPT !.raised = TRUE, !.reads = @ \cup {photo.id}]
    ELSE LET pil_image == get_photo_as_image(st.db, photo.id)
             r == train_from_pil(st.g, pil_image, person_data, photo.id)
             embedding == extract_embedding_from_pil(pil_image)
             read == [st EXCEPT !.reads = @ \cup {photo.id}]
             run == [read EXCEPT !.extracted = @ \cup {photo.id}]
         IN IF pil_image = NoImage THEN read
            ELSE IF ~r.ok
            THEN [run EXCEPT !.g = r.g, !.extractions = @ + 1]
            ELSE IF embedding = NoneEmb
            THEN [run EXCEPT !.g = r.g, !.extractions = @ + 2, !.count = @ + 1]
            ELSE [run EXCEPT !.g = [r.g EXCEPT !.cache = Put(@, photo.id, embedding)],
                             !.db = update_photo_embedding(@, photo.id, embedding, fault),
                             !.unsaved = Raises(fault, "update", photo.id),
                             !.extractions = @ + 2,
                             !.count = @ + 1]

\* a loop body that looks at the Store before the cache
batch_photo_store_first(st, photo, person_data, fault) ==
    IF photo.face_embedding # NoneEmb
    THEN batch_stored(st, photo, person_data, fault)
    ELSE IF photo.id \in DOMAIN st.g.cache THEN batch_cached(st, photo, person_data)
    ELSE batch_extracted(st, photo, person_data, fault)

batch_photo(st, photo, person_data, fault) ==
    IF photo.id \in DOMAIN st.g.cache THEN batch_cached(st, photo, person_data)
    ELSE IF photo.face_embedding # NoneEmb
    THEN batch_stored(st, photo, person_data, fault)
    ELSE batch_extracted(st, photo, person_data, fault)

RECURSIVE batch_loop(_, _, _, _, _)
batch_loop(st, photos, i, person_data, fault) ==
    IF i > Len(photos) \/ st.raised THEN st
    ELSE batch_loop(batch_photo(st, photos[i], person_data, fault),
                    photos, i + 1, person_data, fault)

\* the value returned: trained_count, or 0 from the handler
batch_result(st) == IF st.raised THEN 0 ELSE st.count

\* [g, db, ret, raised, extractions, unsaved, reads, extracted] after
\* batch_train_person(person_id, person_name, db)
batch_train_person(g, db, person_id, person_name, fault) ==
    LET st0 == [g |-> g, db |-> db, count |-> 0, raised |-> FALSE,
                extractions |-> 0, unsaved |-> FALSE, reads |-> {},
                extracted |-> {}]
        person_data == [id |-> person_id, last_name |-> person_name,
                        first_name |-> NoName]
        st == IF Raises(fault, "photos", person_id)
              THEN [st0 EXCEPT !.raised = TRUE]
              ELSE batch_loop(st0, get_person_photos(db, person_id), 1,
                              person_data, fault)
    IN [g |-> st.g, db |-> st.db, ret |-> batch_result(st),
        raised |-> st.raised, extractions |-> st.extractions,
        unsaved |-> st.unsaved, reads |-> st.reads, extracted |-> st.extracted]

(* ------------------------------------------------------------------ *)
(* load_embeddings_from_database                                       *)
(* ------------------------------------------------------------------ *)
\* an inner loop body that admits a stored embedding of any length
load_photo_any_length(st, person, photo, fault) ==
    IF Raises(fault, "photo", photo.id) THEN [st EXCEPT !.raised = TRUE]
    ELSE LET embedding == get_photo_embedding(st.db, photo.id)
         IN IF embedding # NoneEmb
            THEN [st EXCEPT
                    !.g = [@ EXCEPT
                             !.embs = Append(@, embedding),
                             !.names = Append(@, display_name(person)),
                             !.ids = Append(@, person.id),
                             !.pids = Append(@, photo.id),
                             !.cache = Put(@, photo.id, embedding),
                             !.entries = Append(@, Entry(embedding, person.id,
                                                    display_name(person), photo.id))],
                    !.count = @ + 1]
            ELSE st

\* the body of the inner loop for one photo of one person
load_photo(st, person, photo, fault) ==
    IF Raises(fault, "photo", photo.id) THEN [st EXCEPT !.raised = TRUE]
    ELSE LET embedding == get_photo_embedding(st.db, photo.id)
         IN IF embedding # NoneEmb /\ embedding.len = embedding_size
            THEN [st EXCEPT
                    !.g = [@ EXCEPT
                             !.embs = Append(@, embedding),
                             !.names = Append(@, display_name(person)),
                             !.ids = Append(@, person.id),
                             !.pids = Append(@, photo.id),
                             !.cache = Put(@, photo.id, embedding),
                             !.entries = Append(@, Entry(embedding, person.id,
                                                    display_name(person), photo.id))],
                    !.count = @ + 1]
            ELSE st

RECURSIVE load_photos(_, _, _, _, _)
load_photos(st, person, photos, j, fault) ==
    IF j > Len(photos) \/ st.raised THEN st
    ELSE load_photos(load_photo(st, person, photos[j], fault),
                     person, photos, j + 1, fault)

RECURSIVE load_people(_, _, _, _)
load_people(st, people, i, fault) ==
    IF i > Len(people) \/ st.raised THEN st
    ELSE IF Raises(fault, "photos", people[i].id) THEN [st EXCEPT !.raised = TRUE]
    ELSE load_people(load_photos(st, people[i],
                                 get_person_photos(st.db, people[i].id), 1, fault),
                     people, i + 1, fault)

\* rows of the active people, ORDER BY last_name, first_name
get_all_people(people) == SelectSeq(People, LAMBDA r : people[r.id])

\* a reload that clears nothing
load_not_cleared(g) == g

\* the engine once the Gallery and the cache are cleared
load_cleared(g) == [clear_embeddings(g) EXCEPT !.cache = <<>>]

\* [g, ret, raised] after load_embeddings_from_database(db), db being the
\* tables person_photos and people
load_embeddings_from_database(g, db, people, fault) ==
    LET st0 == [g |-> load_cleared(g), db |-> db, count |-> 0,
                raised |-> FALSE, extractions |-> 0]
        st == IF Raises(fault, "people", None) THEN [st0 EXCEPT !.raised = TRUE]
              ELSE load_people(st0, get_all_people(people), 1, fault)
    IN [g |-> st.g, ret |-> IF st.raised THEN 0 ELSE st.count,
        raised |-> st.raised]

(* ------------------------------------------------------------------ *)
(* Configuration                                                       *)
(* ------------------------------------------------------------------ *)
\* a value handed to set_recognition_threshold: None, a number (in tenths)
\* or something float() rejects
safe_float(value, default) ==
    IF value.kind = "number" THEN value.tenths ELSE default

\* a setter that does not clamp
set_recognition_threshold_unclamped(threshold) ==
    safe_float(threshold, default_threshold)

set_recognition_threshold(threshold) ==
    Max(1, Min(10, safe_float(threshold, default_threshold)))

(* ------------------------------------------------------------------ *)
(* Presentation Layer: the camera loop                                 *)
(*                                                                     *)
(* update_camera works on ui = [active, cap, frame, sessions]:         *)
(* is_camera_active, whether self.cap is None ("none"), a capture that *)
(* did not open ("closed") or an open one ("open"), current_frame and  *)
(* the Store's table recognition_sessions.  shot is what cap.read()    *)
(* returns.  Its result is [ui, raised, scheduled, results]: raised    *)
(* when an exception leaves the handler, scheduled when it has called  *)
(* root.after(15, self.update_camera).                                 *)
(* ------------------------------------------------------------------ *)
\* the people a recognition_sessions row is added for: the results with a
\* person id whose row get_person finds
recognized(results, people) ==
    {results[i].person_id : i \in {j \in 1..Len(results) :
        /\ results[j].person_id # None
        /\ get_person(people, results[j].person_id) # NoPerson}}

update_camera(ui, shot, extract_landmarks, embs, ids, pids, tau, people) ==
    IF ui.active /\ ui.cap # "none"
    THEN LET seen == IF shot.readable THEN [ui EXCEPT !.frame = shot] ELSE ui
             r == recognize_face_in_image(shot, extract_landmarks,
                                          embs, ids, pids, tau)
         IN IF r.raised
            THEN [ui |-> seen, raised |-> TRUE, scheduled |-> FALSE,
                  results |-> <<>>]
            ELSE [ui |-> [seen EXCEPT !.sessions =
                                 @ \cup recognized(r.results, people)],
                  raised |-> FALSE, scheduled |-> ui.active,
                  results |-> r.results]
    ELSE [ui |-> ui, raised |-> FALSE, scheduled |-> ui.active,
          results |-> <<>>]

(* ------------------------------------------------------------------ *)
(* State                                                               *)
(* ------------------------------------------------------------------ *)
VARIABLES
    known_embeddings,       \* the four parallel lists of the Gallery
    known_names,
    known_ids,
    known_photo_ids,
    embedding_cache,        \* _embedding_cache: photo id -> embedding
    recognition_threshold,  \* in tenths
    db_photos,              \* the Store's table person_photos
    entries,                \* history: the Gallery as a list of whole entries
    lastCall,               \* history: the last call, its inputs and its result
    db_people,              \* the Store's table people: id -> is_active
    recognition_sessions,   \* the Store's table recognition_sessions
    current_person_id,      \* the person loaded in the form, or None
    is_camera_active,
    cap,                    \* "none", "closed" or "open"
    current_frame,          \* the last frame read, or NoFrame
    pending                 \* number of update_camera callbacks root.after holds

\* the fields of the Presentation Layer and the tables only it writes
gui == <<db_people, recognition_sessions, current_person_id, is_camera_active,
         cap, current_frame, pending>>

vars == <<known_embeddings, known_names, known_ids, known_photo_ids,
          embedding_cache, recognition_threshold, db_photos, entries, lastCall,
          gui>>

\* the engine's fields as one record, and the assignment of such a record
Engine ==
    [embs |-> known_embeddings, names |-> known_names, ids |-> known_ids,
     pids |-> known_photo_ids, cache |-> embedding_cache, entries |-> entries]

SetEngine(g) ==
    /\ known_embeddings' = g.embs
    /\ known_names' = g.names
    /\ known_ids' = g.ids
    /\ known_photo_ids' = g.pids
    /\ embedding_cache' = g.cache
    /\ entries' = g.entries

\* lastCall of a call that has set none of the optional fields:
\*   photo, emb     the photo id / the embedding handed to the call
\*   input          the bytes or the image handed to a train_from_* call
\*   value          the value handed to set_recognition_threshold
\*   ok             the boolean returned; for a batch or load call, that no
\*                  Store call raised
\*   ret            the count returned
\*   result         what recognize_face returned
\*   extractions    the extractor runs of a batch call
\*   repeat         a load call that follows a load call, no Store call
\*                  raising in either
\*   again          a batch call that follows a batch call for the same
\*                  person
\*   reads          the photos a batch call asked the Store the embedding
\*                  or the image of
\*   extracted      the photos a batch call ran the extractor on
\*   trained        the photos a batch call appended an entry for
\*   person         the person of a batch call
\*   fault          the Store call that failed during a batch or load call
\*   frame          the image handed to recognize_face_in_image, or what
\*                  cap.read() returned to update_camera
\*   landmarks      extract_landmarks of that call
\*   raised         an exception has left the call
\*   results        the list recognize_face_in_image returned
Call(op) ==
    [op |-> op, photo |-> None, emb |-> NoneEmb,
     input |-> [decodable |-> FALSE, image |-> ImgNoFace], ok |-> FALSE, ret |-> 0,
     result |-> NoMatch, extractions |-> 0, repeat |-> FALSE,
     value |-> [kind |-> "none", tenths |-> 0],
     person |-> None, fault |-> NoFault, again |-> FALSE, reads |-> {},
     extracted |-> {}, trained |-> {}, frame |-> NoFrame, landmarks |-> FALSE,
     raised |-> FALSE, results |-> <<>>]

\* what column face_embedding of row p may hold when the program starts:
\* nothing, the embedding the program saved for the row's image, or, for a
\* row whose image shows no face now, bytes written by something else: of
\* another length, or an embedding of length D
StoredAtStart(p) ==
    IF p = 1 THEN {extract_embedding(ImageOf(p))}
    ELSE IF p = 2 THEN {NoneEmb}
    ELSE {NoneEmb, Emb(embedding_size + 30, 2, 1), Emb(embedding_size, -1, 1)}

Init ==
    /\ known_embeddings = <<>>
    /\ known_names = <<>>
    /\ known_ids = <<>>
    /\ known_photo_ids = <<>>
    /\ embedding_cache = <<>>
    /\ recognition_threshold = default_threshold
    /\ db_photos \in {db \in [PhotoIds -> [exists : {TRUE},
                                           face_embedding : UNION {StoredAtStart(p) : p \in PhotoIds}]] :
                        \A p \in PhotoIds : db[p].face_embedding \in StoredAtStart(p)}
    /\ entries = <<>>
    /\ lastCall = Call("init")
    /\ db_people = [id \in PersonIds |-> TRUE]
    /\ recognition_sessions = {}
    /\ current_person_id = None
    /\ is_camera_active = FALSE
    /\ cap = "none"
    /\ current_frame = NoFrame
    /\ pending = 0

(* ------------------------------------------------------------------ *)
(* Inputs of the operations                                            *)
(* ------------------------------------------------------------------ *)
PersonRow(id) == CHOOSE r \in {People[i] : i \in 1..Len(People)} : r.id = id

\* camera frames and files trained without a Store row
FrameInputs == {ImgFaceA, ImgRefined}

BytesInputs == {[decodable |-> FALSE, image |-> ImgNoFace],
                [decodable |-> TRUE, image |-> ImgFlat]}

\* records of an exported file, as import_embeddings hands them over
Imports ==
    {[emb |-> Emb(embedding_size, 2, -2), person |-> People[2], photo |-> 2],
     [emb |-> Emb(embedding_size, 0, 0), person |-> Guest, photo |-> None],
     [emb |-> Emb(embedding_size - 2, 1, -1), person |-> People[1], photo |-> 3],
     [emb |-> NoneEmb, person |-> Guest, photo |-> None]}

ThresholdInputs ==
    {[kind |-> "none", tenths |-> 0], [kind |-> "text", tenths |-> 0]}
    \cup {[kind |-> "number", tenths |-> t] : t \in {-2, 3, 14}}

\* load_embeddings_from_database only reads
LoadFaults == {f \in Faults : f.on # "update"}

\* a batch call none of whose Store calls fails, or one of whose reads raises
BatchFaults(person_id) ==
    {NoFault, [on |-> "photos", id |-> person_id]}
    \cup {[on |-> "photo", id |-> p] : p \in {q \in PhotoIds : OwnerOf(q) = person_id}}

\* a batch call whose write of one row fails
UpdateFaults(person_id) ==
    {[on |-> "update", id |-> p] : p \in {q \in PhotoIds : OwnerOf(q) = person_id}}

\* what cap.read() may return: no frame, a frame without a face, with the
\* face of photo 1, and with two faces, the second near the border
CameraFrames ==
    {NoFrame,
     Frame(<<>>),
     Frame(<<Detection(100, 100, 200, 200, ImgFaceA)>>),
     Frame(<<Detection(30, 40, 100, 100, ImgFaceB),
             Detection(500, 300, 200, 200, ImgFaceA)>>)}

(* ------------------------------------------------------------------ *)
(* Operations                                                          *)
(* ------------------------------------------------------------------ *)
Room(n) == Len(known_embeddings) + n <= MaxGallery

TrainFromImage ==
    \E image \in FrameInputs :
        LET r == train_from_image(Engine, image, Guest, None)
        IN /\ Room(1)
           /\ SetEngine(r.g)
           /\ lastCall' = [Call("train_from_image") EXCEPT
                             !.input = [decodable |-> TRUE, image |-> image],
                             !.ok = r.ok]
           /\ UNCHANGED <<recognition_threshold, db_photos, gui>>

TrainFromBytes ==
    \E bytes \in BytesInputs :
        LET r == train_from_bytes(Engine, bytes, Guest, None)
        IN /\ Room(1)
           /\ SetEngine(r.g)
           /\ lastCall' = [Call("train_from_bytes") EXCEPT
                             !.input = bytes, !.ok = r.ok]
           /\ UNCHANGED <<recognition_threshold, db_photos, gui>>

\* train_from_pil handed the image, the person and the id of a Store row
TrainFromPil ==
    \E p \in PhotoIds :
        LET r == train_from_pil(Engine, ImageOf(p), PersonRow(OwnerOf(p)), p)
        IN /\ Room(1)
           /\ db_photos[p].exists
           /\ SetEngine(r.g)
           /\ lastCall' = [Call("train_from_pil") EXCEPT
                             !.input = [decodable |-> TRUE, image |-> ImageOf(p)],
                             !.photo = p, !.ok = r.ok]
           /\ UNCHANGED <<recognition_threshold, db_photos, gui>>

\* train_selected_photo: train on the row's image and, on success, extract
\* again and save the embedding in the row
TrainSelectedPhoto ==
    \E p \in PhotoIds :
        LET pil_image == get_photo_as_image(db_photos, p)
            r == train_from_pil(Engine, pil_image, PersonRow(OwnerOf(p)), p)
            embedding == extract_embedding_from_pil(pil_image)
        IN /\ Room(1)
           /\ db_photos[p].exists
           /\ SetEngine(r.g)
           /\ db_photos' = IF r.ok /\ embedding # NoneEmb
                            THEN update_photo_embedding(db_photos, p, embedding, NoFault)
                            ELSE db_photos
           /\ lastCall' = [Call("train_selected_photo") EXCEPT !.photo = p, !.ok = r.ok]
           /\ UNCHANGED <<recognition_threshold, gui>>

AddExistingEmbedding ==
    \E d \in Imports :
        LET r == add_existing_embedding(Engine, d.emb, d.person, d.photo)
        IN /\ Room(1)
           /\ SetEngine(r.g)
           /\ lastCall' = [Call("add_existing_embedding") EXCEPT
                             !.emb = d.emb, !.photo = d.photo, !.ok = r.ok]
           /\ UNCHANGED <<recognition_threshold, db_photos, gui>>

\* the batch_train_person handler for one person under one Store fault
BatchTrain(person_id, fault) ==
    LET person == PersonRow(person_id)
        r == batch_train_person(Engine, db_photos, person_id,
                                person.last_name \o person.first_name, fault)
    IN /\ Room(Len(get_person_photos(db_photos, person_id)))
       /\ SetEngine(r.g)
       /\ db_photos' = r.db
       /\ lastCall' = [Call("batch_train_person") EXCEPT
                         !.ok = ~r.raised, !.ret = r.ret,
                         !.extractions = r.extractions,
                         !.person = person_id,
                         !.fault = IF r.raised \/ r.unsaved THEN fault
                                   ELSE NoFault,
                         !.again = /\ lastCall.op = "batch_train_person"
                                   /\ lastCall.person = person_id,
                         !.reads = r.reads,
                         !.extracted = r.extracted,
                         !.trained = {r.g.pids[i] :
                                        i \in (Len(known_photo_ids) + 1)..Len(r.g.pids)}]
       /\ UNCHANGED <<recognition_threshold, gui>>

BatchTrainPerson ==
    \E person_id \in PersonIds : \E fault \in BatchFaults(person_id) :
        BatchTrain(person_id, fault)

\* batch_train_person while the Store cannot be written
BatchTrainPersonUnsaved ==
    \E person_id \in PersonIds : \E fault \in UpdateFaults(person_id) :
        BatchTrain(person_id, fault)

LoadEmbeddingsFromDatabase ==
    \E fault \in LoadFaults :
        LET r == load_embeddings_from_database(Engine, db_photos, db_people, fault)
        IN /\ SetEngine(r.g)
           /\ lastCall' = [Call("load_embeddings_from_database") EXCEPT
                             !.ok = ~r.raised, !.ret = r.ret,
                             !.fault = IF r.raised THEN fault ELSE NoFault,
                             !.repeat = /\ lastCall.op = "load_embeddings_from_database"
                                        /\ lastCall.ok
                                        /\ ~r.raised]
           /\ UNCHANGED <<recognition_threshold, db_photos, gui>>

ClearEmbeddings ==
    /\ SetEngine(clear_embeddings(Engine))
    /\ lastCall' = Call("clear_embeddings")
    /\ UNCHANGED <<recognition_threshold, db_photos, gui>>

RemoveEmbeddingByPhotoId ==
    \E p \in PhotoIds \cup {None} :
        LET r == remove_embedding_by_photo_id(Engine, p)
        IN /\ SetEngine(r.g)
           /\ lastCall' = [Call("remove_embedding_by_photo_id") EXCEPT
                             !.photo = p, !.ok = r.ok]
           /\ UNCHANGED <<recognition_threshold, db_photos, gui>>

\* delete_selected_photo: the row is deleted, then its embedding removed
DeleteSelectedPhoto ==
    \E p \in PhotoIds :
        LET r == remove_embedding_by_photo_id(Engine, p)
        IN /\ db_photos[p].exists
           /\ db_photos' = delete_photo(db_photos, p)
           /\ SetEngine(r.g)
           /\ lastCall' = [Call("delete_selected_photo") EXCEPT
                             !.photo = p, !.ok = r.ok]
           /\ UNCHANGED <<recognition_threshold, gui>>

SetRecognitionThreshold ==
    \E threshold \in ThresholdInputs :
        /\ recognition_threshold' = set_recognition_threshold(threshold)
        /\ lastCall' = [Call("set_recognition_threshold") EXCEPT !.value = threshold]
        /\ UNCHANGED <<known_embeddings, known_names, known_ids, known_photo_ids,
                       embedding_cache, db_photos, entries, gui>>

RecognizeFace ==
    \E embedding \in Vectors :
        /\ lastCall' = [Call("recognize_face") EXCEPT
                          !.emb = embedding,
                          !.result = recognize_face(embedding, known_embeddings,
                                                    known_ids, known_photo_ids,
                                                    recognition_threshold)]
        /\ UNCHANGED <<known_embeddings, known_names, known_ids, known_photo_ids,
                       embedding_cache, recognition_threshold, db_photos, entries,
                       gui>>

RecognizeFaceInImage ==
    \E image \in CameraFrames, extract_landmarks \in BOOLEAN :
        LET r == recognize_face_in_image(image, extract_landmarks,
                                         known_embeddings, known_ids,
                                         known_photo_ids, recognition_threshold)
        IN /\ lastCall' = [Call("recognize_face_in_image") EXCEPT
                             !.frame = image, !.landmarks = extract_landmarks,
                             !.raised = r.raised, !.results = r.results,
                             !.ok = ~r.raised]
           /\ UNCHANGED <<known_embeddings, known_names, known_ids,
                          known_photo_ids, embedding_cache,
                          recognition_threshold, db_photos, entries, gui>>

(* The camera loop.  Tk runs one handler at a time; a callback handed to *)
(* root.after stays with the timer until it fires, nothing cancels it.   *)
Ui ==
    [active |-> is_camera_active, cap |-> cap, frame |-> current_frame,
     sessions |-> recognition_sessions]

\* start_camera: the Start button is disabled while the camera is active.
\* The handler catches what its own call of update_camera raises.
StartCamera ==
    \E opened \in BOOLEAN, shot \in CameraFrames, extract_landmarks \in BOOLEAN :
        LET r == update_camera([Ui EXCEPT !.active = TRUE, !.cap = "open"],
                               shot, extract_landmarks, known_embeddings,
                               known_ids, known_photo_ids,
                               recognition_threshold, db_people)
        IN /\ ~is_camera_active
           /\ pending < MaxPending
           /\ IF opened
              THEN /\ is_camera_active' = TRUE
                   /\ cap' = "open"
                   /\ current_frame' = r.ui.frame
                   /\ recognition_sessions' = r.ui.sessions
                   /\ pending' = pending + (IF r.scheduled THEN 1 ELSE 0)
                   /\ lastCall' = [Call("start_camera") EXCEPT
                                     !.frame = shot,
                                     !.landmarks = extract_landmarks,
                                     !.results = r.results,
                                     !.ok = ~r.raised]
              ELSE /\ cap' = "closed"
                   /\ lastCall' = Call("start_camera")
                   /\ UNCHANGED <<is_camera_active, current_frame,
                                  recognition_sessions, pending>>
           /\ UNCHANGED <<known_embeddings, known_names, known_ids,
                          known_photo_ids, embedding_cache,
                          recognition_threshold, db_photos, entries,
                          db_people, current_person_id>>

\* stop_camera: the Stop button is enabled while the camera is active
StopCamera ==
    /\ is_camera_active
    /\ is_camera_active' = FALSE
    /\ cap' = "none"
    /\ lastCall' = Call("stop_camera")
    /\ UNCHANGED <<known_embeddings, known_names, known_ids, known_photo_ids,
                   embedding_cache, recognition_threshold, db_photos, entries,
                   db_people, recognition_sessions, current_person_id,
                   current_frame, pending>>

\* the timer fires one of the callbacks it holds: update_camera runs
UpdateCamera ==
    \E shot \in CameraFrames, extract_landmarks \in BOOLEAN :
        LET r == update_camera(Ui, shot, extract_landmarks, known_embeddings,
                               known_ids, known_photo_ids,
                               recognition_threshold, db_people)
            read == is_camera_active /\ cap # "none"
        IN /\ pending > 0
           /\ pending' = pending - 1 + (IF r.scheduled THEN 1 ELSE 0)
           /\ current_frame' = r.ui.frame
           /\ recognition_sessions' = r.ui.sessions
           /\ lastCall' = [Call("update_camera") EXCEPT
                             !.frame = IF read THEN shot ELSE NoFrame,
                             !.landmarks = read /\ extract_landmarks,
                             !.raised = r.raised,
                             !.results = r.results,
                             !.ok = r.scheduled]
           /\ UNCHANGED <<known_embeddings, known_names, known_ids,
                          known_photo_ids, embedding_cache,
                          recognition_threshold, db_photos, entries,
                          db_people, current_person_id, is_camera_active, cap>>

(* The people handlers.  The table of the database tab lists the active *)
(* people (refresh_database), so only those can be selected.            *)
\* edit_selected_person -> load_person_for_edit
LoadPersonForEdit ==
    \E person_id \in PersonIds :
        /\ db_people[person_id]
        /\ current_person_id' =
              IF get_person(db_people, person_id) # NoPerson THEN person_id
              ELSE current_person_id
        /\ lastCall' = [Call("load_person_for_edit") EXCEPT !.person = person_id]
        /\ UNCHANGED <<known_embeddings, known_names, known_ids,
                       known_photo_ids, embedding_cache, recognition_threshold,
                       db_photos, entries, db_people, recognition_sessions,
                       is_camera_active, cap, current_frame, pending>>

\* delete_selected_person; yes is the answer to the confirmation dialog
DeleteSelectedPerson ==
    \E person_id \in PersonIds, yes \in BOOLEAN :
        /\ db_people[person_id]
        /\ db_people' = IF yes THEN delete_person(db_people, person_id)
                        ELSE db_people
        /\ current_person_id' = IF yes /\ current_person_id = person_id
                                THEN None ELSE current_person_id
        /\ lastCall' = [Call("delete_selected_person") EXCEPT
                          !.person = person_id, !.ok = yes]
        /\ UNCHANGED <<known_embeddings, known_names, known_ids,
                       known_photo_ids, embedding_cache, recognition_threshold,
                       db_photos, entries, recognition_sessions,
                       is_camera_active, cap, current_frame, pending>>

\* delete_current_person
DeleteCurrentPerson ==
    \E yes \in BOOLEAN :
        LET found == get_person(db_people, current_person_id) # NoPerson
        IN /\ current_person_id # None
           /\ db_people' = IF found /\ yes
                           THEN delete_person(db_people, current_person_id)
                           ELSE db_people
           /\ current_person_id' = IF found /\ yes THEN None
                                   ELSE current_person_id
           /\ lastCall' = [Call("delete_current_person") EXCEPT
                             !.person = current_person_id,
                             !.ok = found /\ yes]
           /\ UNCHANGED <<known_embeddings, known_names, known_ids,
                          known_photo_ids, embedding_cache,
                          recognition_threshold, db_photos, entries,
                          recognition_sessions, is_camera_active, cap,
                          current_frame, pending>>

Next ==
    \/ TrainFromImage
    \/ TrainFromBytes
    \/ TrainFromPil
    \/ TrainSelectedPhoto
    \/ AddExistingEmbedding
    \/ BatchTrainPerson
    \/ BatchTrainPersonUnsaved
    \/ LoadEmbeddingsFromDatabase
    \/ ClearEmbeddings
    \/ RemoveEmbeddingByPhotoId
    \/ DeleteSelectedPhoto
    \/ SetRecognitionThreshold
    \/ RecognizeFace
    \/ RecognizeFaceInImage
    \/ StartCamera
    \/ StopCamera
    \/ UpdateCamera
    \/ LoadPersonForEdit
    \/ DeleteSelectedPerson
    \/ DeleteCurrentPerson

Spec == Init /\ [][Next]_vars

\* the Training / Sync Controller driven against the Store
NextSync ==
    \/ TrainFromImage
    \/ TrainFromBytes
    \/ TrainFromPil
    \/ AddExistingEmbedding
    \/ BatchTrainPerson
    \/ LoadEmbeddingsFromDatabase
    \/ ClearEmbeddings
    \/ RemoveEmbeddingByPhotoId

\* its Store holds a row whose stored embedding has another length
InitSync == Init /\ db_photos[3].face_embedding = Emb(embedding_size + 30, 2, 1)

SpecSync == InitSync /\ [][NextSync]_vars

\* the Presentation Layer's photo handlers: train, batch train, delete, and
\* the recognition of a frame
NextPhotos ==
    \/ TrainSelectedPhoto
    \/ BatchTrainPerson
    \/ DeleteSelectedPhoto
    \/ RecognizeFace

SpecPhotos == Init /\ [][NextPhotos]_vars

\* batch training and reloading against a Store that may fail and whose
\* rows may be deleted
NextBatch ==
    \/ BatchTrainPerson
    \/ BatchTrainPersonUnsaved
    \/ LoadEmbeddingsFromDatabase
    \/ ClearEmbeddings
    \/ DeleteSelectedPhoto

SpecBatch == Init /\ [][NextBatch]_vars

\* the Matcher over a Gallery filled by direct training calls
NextMatch ==
    \/ TrainFromImage
    \/ TrainFromBytes
    \/ TrainFromPil
    \/ AddExistingEmbedding
    \/ RemoveEmbeddingByPhotoId
    \/ SetRecognitionThreshold
    \/ RecognizeFace

SpecMatch == InitSync /\ [][NextMatch]_vars

\* every operation of the engine, on Galleries of at most MaxConfigGallery
\* entries
SmallGallery == Len(known_embeddings') <= MaxConfigGallery

NextConfig ==
    \/ TrainFromImage /\ SmallGallery
    \/ TrainFromBytes /\ SmallGallery
    \/ TrainFromPil /\ SmallGallery
    \/ AddExistingEmbedding /\ SmallGallery
    \/ BatchTrainPerson /\ SmallGallery
    \/ LoadEmbeddingsFromDatabase /\ SmallGallery
    \/ ClearEmbeddings
    \/ RemoveEmbeddingByPhotoId
    \/ SetRecognitionThreshold
    \/ RecognizeFace

SpecConfig == InitSync /\ [][NextConfig]_vars

\* the camera loop over a Gallery loaded from the Store
NextCamera ==
    \/ LoadEmbeddingsFromDatabase
    \/ RecognizeFaceInImage
    \/ StartCamera
    \/ StopCamera
    \/ UpdateCamera

SpecCamera == InitSync /\ [][NextCamera]_vars

\* people deleted while the Gallery holds their embeddings
NextPeople ==
    \/ LoadEmbeddingsFromDatabase
    \/ LoadPersonForEdit
    \/ DeleteSelectedPerson
    \/ DeleteCurrentPerson
    \/ RecognizeFace

SpecPeople == Init /\ [][NextPeople]_vars

(* ------------------------------------------------------------------ *)
(* Properties                                                          *)
(* ------------------------------------------------------------------ *)
GallerySize == Len(known_embeddings)

CalledOp(op) == lastCall.op = op

\* no value occurs twice in s, None apart
NoDuplicates(s) ==
    \A i, j \in 1..Len(s) : (i # j /\ s[i] # None) => s[i] # s[j]

\* C1: in every reachable state the four parallel Gallery lists have the
\* same length and index i of each holds the field of the i-th entry
\* enrolled and not removed, also after calls that fail.
C1_ParallelListsAligned ==
    /\ Len(known_names) = GallerySize
    /\ Len(known_ids) = GallerySize
    /\ Len(known_photo_ids) = GallerySize
    /\ Len(entries) = GallerySize
    /\ \A i \in 1..GallerySize :
          entries[i] = Entry(known_embeddings[i], known_ids[i],
                             known_names[i], known_photo_ids[i])

\* a removal has taken an entry out of a Gallery of three
C1_Witness ==
    /\ CalledOp("remove_embedding_by_photo_id")
    /\ lastCall.ok
    /\ GallerySize = 2
    /\ known_ids[1] # known_ids[2]

\* C2: no two Gallery entries carry the same photo id. Stated for the steps
\* the claim singles out: a batch_train_person call that follows a
\* batch_train_person or load_embeddings_from_database call, made on a
\* Gallery without duplicate photo ids, leaves it without duplicate photo ids.
C2_BatchInsertsNoDuplicate ==
    [][(/\ lastCall.op \in {"batch_train_person", "load_embeddings_from_database"}
        /\ lastCall'.op = "batch_train_person"
        /\ NoDuplicates(known_photo_ids))
          => NoDuplicates(known_photo_ids')]_vars

(* Matcher *)
\* the similarity of the query of the last recognize_face call to entry i
SimTo(i) == calculate_similarity(lastCall.emb, known_embeddings[i])

Tau == SimOfTenths(recognition_threshold)

\* the entries whose similarity to the query exceeds the threshold
Accepted == {i \in 1..GallerySize : Greater(SimTo(i), Tau)}

\* the accepted entries no entry is more similar than
Best == {i \in Accepted : \A j \in 1..GallerySize : ~Greater(SimTo(j), SimTo(i))}

\* C3: recognize_face returns exactly (None, 0.0, None) when the query is
\* absent, the Gallery is empty or no entry is more similar than the
\* threshold; an identity or photo id never comes with a confidence at or
\* below the threshold, nor a non-zero confidence with no identity.
C3_NoMatchIsExact ==
    CalledOp("recognize_face") =>
        /\ (lastCall.emb = NoneEmb \/ GallerySize = 0 \/ Accepted = {})
              => lastCall.result = NoMatch
        /\ (lastCall.result.id # None \/ lastCall.result.photo # None)
              => Greater(lastCall.result.conf, Tau)
        /\ lastCall.result.conf # Sim00 => lastCall.result.id # None

\* a query that is half similar to an entry is rejected at threshold 0.6
C3_Witness ==
    /\ CalledOp("recognize_face")
    /\ lastCall.emb # NoneEmb
    /\ GallerySize > 0
    /\ \E i \in 1..GallerySize : Greater(SimTo(i), Sim00)
    /\ Accepted = {}
    /\ lastCall.result = NoMatch

\* C4: when some entry is more similar than the threshold, recognize_face
\* returns the identity and the photo id of one entry of maximal
\* similarity, both from the same index, and that similarity as confidence.
C4_ReturnsMaximum ==
    (CalledOp("recognize_face") /\ lastCall.emb # NoneEmb /\ Accepted # {}) =>
        \E i \in Best :
            lastCall.result = [id |-> known_ids[i], conf |-> SimTo(i),
                               photo |-> known_photo_ids[i]]

\* the best entry is not the first accepted one, and another is accepted
C4_Witness ==
    /\ CalledOp("recognize_face")
    /\ lastCall.emb # NoneEmb
    /\ \E i \in Best : \E j \in Accepted \ Best :
          /\ j < i
          /\ lastCall.result.id = known_ids[i]
          /\ known_ids[j] # known_ids[i]

\* C5: of several entries that share the maximal similarity, the earliest
\* inserted one is returned.
C5_FirstOfTiesWins ==
    (CalledOp("recognize_face") /\ lastCall.emb # NoneEmb /\ Best # {}) =>
        LET first == CHOOSE i \in Best : \A j \in Best : i <= j
        IN /\ lastCall.result.id = known_ids[first]
           /\ lastCall.result.photo = known_photo_ids[first]

\* two entries of different people tie and the earlier is returned
C5_Witness ==
    /\ CalledOp("recognize_face")
    /\ lastCall.emb # NoneEmb
    /\ \E i, j \in Best :
          /\ i < j
          /\ known_ids[i] # known_ids[j]
          /\ known_photo_ids[i] # known_photo_ids[j]
          /\ lastCall.result.id = known_ids[i]

\* the entries whose embedding is the query itself
Identical == {i \in 1..GallerySize : known_embeddings[i] = lastCall.emb}

\* y is x multiplied by a positive number
PositiveMultiple(x, y) ==
    /\ x.len = y.len
    /\ x.blk[1] * y.blk[2] = x.blk[2] * y.blk[1]
    /\ Dot(x, y) > 0

C7_RemovedPhotoNotRecognized ==
    CalledOp("recognize_face") =>
        \/ lastCall.result.photo = None
        \/ db_photos[lastCall.result.photo].exists

\* C8: after remove_embedding_by_photo_id(p) has returned, True or False,
\* p is not a key of the Extraction Cache.
C8_RemovedPhotoNotCached ==
    CalledOp("remove_embedding_by_photo_id") =>
        lastCall.photo \notin DOMAIN embedding_cache

\* s without its element at position i, stated element by element
IsWithout(t, s, i) ==
    /\ Len(t) = Len(s) - 1
    /\ \A j \in 1..Len(t) : t[j] = IF j < i THEN s[j] ELSE s[j + 1]

\* C9: remove_embedding_by_photo_id(p) removes exactly the earliest entry
\* whose photo id is p and returns True, or returns False and leaves the
\* Gallery as it is when there is none; the other entries keep their
\* fields and their order.
C9_RemovesFirstMatchOnly ==
    [][lastCall'.op = "remove_embedding_by_photo_id" =>
          LET p == lastCall'.photo
              hits == {i \in 1..Len(known_photo_ids) : known_photo_ids[i] = p}
          IN IF hits = {}
             THEN /\ ~lastCall'.ok
                  /\ UNCHANGED <<known_embeddings, known_names, known_ids,
                                 known_photo_ids>>
             ELSE LET first == CHOOSE i \in hits : \A j \in hits : i <= j
                  IN /\ lastCall'.ok
                     /\ IsWithout(known_embeddings', known_embeddings, first)
                     /\ IsWithout(known_names', known_names, first)
                     /\ IsWithout(known_ids', known_ids, first)
                     /\ IsWithout(known_photo_ids', known_photo_ids, first)]_vars

\* a removal returned True and left a later entry of the same photo, of
\* another embedding, together with an entry of another photo
C9_Witness ==
    /\ CalledOp("remove_embedding_by_photo_id")
    /\ lastCall.ok
    /\ GallerySize = 2
    /\ \E i, j \in 1..GallerySize :
          /\ known_photo_ids[i] = lastCall.photo
          /\ known_photo_ids[j] # lastCall.photo

\* C10: a second load_embeddings_from_database in a row, the Store being
\* the same and no Store call raising, returns the count of the first and
\* leaves the Gallery and the cache as the first left them.
C10_LoadTwiceIsIdempotent ==
    [][lastCall'.repeat =>
          /\ lastCall'.ret = lastCall.ret
          /\ UNCHANGED <<known_embeddings, known_names, known_ids,
                         known_photo_ids, embedding_cache>>]_vars

\* the second of two loads in a row has loaded an entry
C10_Witness ==
    /\ lastCall.repeat
    /\ lastCall.ret >= 1
    /\ GallerySize = lastCall.ret

(* Reload *)
\* the rows of the Store whose stored embedding exists and has length D
Loadable(p) ==
    /\ db_photos[p].exists
    /\ db_photos[p].face_embedding # NoneEmb
    /\ db_photos[p].face_embedding.len = embedding_size

\* i-th entry of the Gallery is the stored embedding of photo p of its owner
IsStoreEntry(i, p) ==
    /\ known_photo_ids[i] = p
    /\ known_ids[i] = OwnerOf(p)
    /\ known_names[i] = display_name(PersonRow(OwnerOf(p)))
    /\ known_embeddings[i] = db_photos[p].face_embedding

\* position of a row in the Store's iteration: people by last name, the
\* photos of one person newest first
Before(p, q) ==
    \/ OwnerOf(p) < OwnerOf(q)
    \/ OwnerOf(p) = OwnerOf(q) /\ p > q

\* C11: after load_embeddings_from_database, no Store call having raised,
\* the Gallery holds exactly one entry for every Store row whose stored
\* embedding exists and has length D, in the Store's iteration order, and
\* nothing else; the count returned is the Gallery size and the cache keys
\* are the Gallery's photo ids.
C11_LoadMirrorsStore ==
    (CalledOp("load_embeddings_from_database") /\ lastCall.ok) =>
        /\ \A p \in PhotoIds :
              Cardinality({i \in 1..GallerySize : known_photo_ids[i] = p})
                  = IF Loadable(p) THEN 1 ELSE 0
        /\ \A i \in 1..GallerySize : IsStoreEntry(i, known_photo_ids[i])
        /\ \A i, j \in 1..GallerySize :
              i < j => Before(known_photo_ids[i], known_photo_ids[j])
        /\ lastCall.ret = GallerySize
        /\ DOMAIN embedding_cache = {known_photo_ids[i] : i \in 1..GallerySize}

\* a load has taken the rows of two people and skipped a row whose stored
\* embedding has another length
C11_Witness ==
    /\ CalledOp("load_embeddings_from_database")
    /\ lastCall.ok
    /\ lastCall.ret = 2
    /\ known_ids = <<1, 2>>
    /\ \E p \in PhotoIds :
          /\ db_photos[p].face_embedding # NoneEmb
          /\ ~Loadable(p)

(* Store failures *)
\* the rows the failed Store call of the last call was made for
Affected(p) ==
    \/ lastCall.fault.on = "photos" /\ OwnerOf(p) = lastCall.fault.id
    \/ lastCall.fault.on \in {"photo", "update"} /\ p = lastCall.fault.id

\* C12: when listing one person's photos or reading one photo's embedding
\* raises during load_embeddings_from_database, every other loadable row
\* of the Store is loaded all the same and the count returned is the
\* number of embeddings loaded.
C12_LoadFailureIsolated ==
    (CalledOp("load_embeddings_from_database")
        /\ lastCall.fault.on \in {"photos", "photo"}) =>
        /\ \A p \in PhotoIds :
              (Loadable(p) /\ ~Affected(p)) =>
                  \E i \in 1..GallerySize : IsStoreEntry(i, p)
        /\ lastCall.ret = GallerySize

(* batch_train_person *)
\* the photo ids of a person's rows, in the order the Store lists them
PhotosOf(person_id) ==
    LET photos == get_person_photos(db_photos, person_id)
    IN [i \in 1..Len(photos) |-> photos[i].id]

\* the three ways a photo can be resolved by a batch call
IsCached(p) == p \in DOMAIN embedding_cache

IsStored(p) ==
    /\ db_photos[p].face_embedding # NoneEmb
    /\ db_photos[p].face_embedding.len = embedding_size

IsExtractable(p) ==
    /\ db_photos[p].face_embedding = NoneEmb
    /\ extract_embedding_from_pil(ImageOf(p)) # NoneEmb

Trainable(p) == IsCached(p) \/ IsStored(p) \/ IsExtractable(p)

\* the elements of s that are in K, in their order
Filtered(s, K) == SelectSeq(s, LAMBDA x : x \in K)

\* the photo ids a call has appended to the Gallery
Appended == SubSeq(known_photo_ids', Len(known_photo_ids) + 1, Len(known_photo_ids'))

\* C13: batch_train_person goes on after a photo that fails: whether a
\* photo has no face, an unusable stored embedding, or a Store call made
\* for it raises, every other photo of the person that can be trained is
\* trained, in order, and the count returned is their number.
C13_BatchFailureIsolated ==
    [][(lastCall'.op = "batch_train_person"
            /\ lastCall'.fault.on \in {"none", "photo"}) =>
          LET failed == IF lastCall'.fault.on = "photo" THEN lastCall'.fault.id
                        ELSE None
              succeeds == {p \in PhotoIds : Trainable(p) /\ p # failed}
              expected == Filtered(PhotosOf(lastCall'.person), succeeds)
          IN /\ Appended = expected
             /\ lastCall'.ret = Len(expected)]_vars

\* C14: after a batch_train_person none of whose Store calls fails, for a
\* person each of whose photos is cached, or has a stored embedding of
\* length D, or has none but an image that yields one, the count returned
\* is the number of photos, and each photo is a key of the cache and has
\* a stored embedding in the Store.
C14_BatchTrainsEveryPhoto ==
    [][(lastCall'.op = "batch_train_person"
            /\ lastCall'.fault.on = "none"
            /\ \A i \in 1..Len(PhotosOf(lastCall'.person)) :
                  Trainable(PhotosOf(lastCall'.person)[i])) =>
          /\ lastCall'.ret = Len(PhotosOf(lastCall'.person))
          /\ \A i \in 1..Len(PhotosOf(lastCall'.person)) :
                LET p == PhotosOf(lastCall'.person)[i]
                IN /\ p \in DOMAIN embedding_cache'
                   /\ db_photos'[p].face_embedding # NoneEmb]_vars

\* C15: batch_train_person resolves a photo from the cache first, then
\* from its stored embedding, then by extraction: for a cached photo it
\* asks the Store neither the embedding nor the image and runs no
\* extraction, for an uncached photo with a stored embedding it runs no
\* extraction, and a second call for the same person runs no extraction
\* on a photo the first call trained.
C15_BatchPriorityOrder ==
    [][lastCall'.op = "batch_train_person" =>
          /\ \A i \in 1..Len(PhotosOf(lastCall'.person)) :
                LET p == PhotosOf(lastCall'.person)[i]
                IN /\ IsCached(p) =>
                         p \notin lastCall'.reads \cup lastCall'.extracted
                   /\ db_photos[p].face_embedding # NoneEmb =>
                         p \notin lastCall'.extracted
          /\ lastCall'.again => lastCall.trained \cap lastCall'.extracted = {}]_vars

\* a second batch call for person 2 has trained the photo the first call
\* extracted, from the cache alone
C15_Witness ==
    /\ CalledOp("batch_train_person")
    /\ lastCall.again
    /\ lastCall.person = 2
    /\ lastCall.trained = {2}
    /\ lastCall.reads = {}
    /\ lastCall.extracted = {}
    /\ lastCall.ret = 1

(* Training *)
\* the call has appended exactly one entry and touched no other
AppendedOne ==
    /\ Len(known_embeddings') = Len(known_embeddings) + 1
    /\ Len(known_names') = Len(known_names) + 1
    /\ Len(known_ids') = Len(known_ids) + 1
    /\ Len(known_photo_ids') = Len(known_photo_ids) + 1
    /\ SubSeq(known_embeddings', 1, Len(known_embeddings)) = known_embeddings
    /\ SubSeq(known_names', 1, Len(known_names)) = known_names
    /\ SubSeq(known_ids', 1, Len(known_ids)) = known_ids
    /\ SubSeq(known_photo_ids', 1, Len(known_photo_ids)) = known_photo_ids

\* extraction from these bytes or this image yields no embedding: bytes
\* that do not decode, no face, or a landmark array that is not D long
NotDetected(input) ==
    \/ ~input.decodable
    \/ input.image.mesh = <<>>
    \/ input.image.mesh[1].len # embedding_size

\* C16: train_from_image, train_from_bytes and train_from_pil return False
\* and leave the four Gallery lists, the cache and the threshold as they
\* are when extraction detects nothing; otherwise they return True, having
\* appended exactly one entry.
C16_TrainFailsWithoutMutation ==
    [][lastCall'.op \in {"train_from_image", "train_from_bytes", "train_from_pil"} =>
          IF NotDetected(lastCall'.input)
          THEN /\ ~lastCall'.ok
               /\ UNCHANGED <<known_embeddings, known_names, known_ids,
                              known_photo_ids, embedding_cache,
                              recognition_threshold>>
          ELSE /\ lastCall'.ok
               /\ AppendedOne]_vars

\* train_from_image has refused a face of 478 landmarks, the Gallery
\* holding entries
C16_Witness ==
    /\ CalledOp("train_from_image")
    /\ lastCall.input.image = ImgRefined
    /\ ~lastCall.ok
    /\ GallerySize >= 2

\* C17: add_existing_embedding returns False and leaves the Gallery and
\* the cache as they are when the embedding is None or not D long;
\* when it is D long the call appends exactly one entry and returns True.
C17_AddExistingValidatesLength ==
    [][lastCall'.op = "add_existing_embedding" =>
          IF lastCall'.emb = NoneEmb \/ lastCall'.emb.len # embedding_size
          THEN /\ ~lastCall'.ok
               /\ UNCHANGED <<known_embeddings, known_names, known_ids,
                              known_photo_ids, embedding_cache>>
          ELSE /\ lastCall'.ok
               /\ AppendedOne
               /\ known_embeddings'[Len(known_embeddings')] = lastCall'.emb
               /\ known_photo_ids'[Len(known_photo_ids')] = lastCall'.photo]_vars

\* add_existing_embedding has refused an embedding two numbers short, the
\* Gallery holding entries
C17_Witness ==
    /\ CalledOp("add_existing_embedding")
    /\ lastCall.emb # NoneEmb
    /\ lastCall.emb.len = embedding_size - 2
    /\ ~lastCall.ok
    /\ GallerySize >= 2

(* Vector length *)
\* C18: in every reachable state every embedding of the Gallery and every
\* embedding of the Extraction Cache is exactly D = 1404 numbers long,
\* whichever of training, import, batch training and reload admitted it.
C18_EveryVectorHasLengthD ==
    /\ \A i \in 1..GallerySize : known_embeddings[i].len = embedding_size
    /\ \A p \in DOMAIN embedding_cache : embedding_cache[p].len = embedding_size

\* a batch call for person 1 has trained photo 1 next to a row whose
\* stored embedding is 1434 numbers long, a Gallery entry being there already
C18_Witness ==
    /\ CalledOp("batch_train_person")
    /\ lastCall.person = 1
    /\ lastCall.trained = {1}
    /\ 3 \in lastCall.reads
    /\ db_photos[3].face_embedding.len = embedding_size + 30
    /\ GallerySize >= 2
    /\ 1 \in DOMAIN embedding_cache

(* Configuration *)
\* the threshold, in tenths, set_recognition_threshold is to store for a value
Clamped(value) ==
    IF value.kind # "number" THEN 6
    ELSE IF value.tenths < 1 THEN 1
    ELSE IF value.tenths > 10 THEN 10
    ELSE value.tenths

\* C19: the threshold is 0.6 at construction and within [0.1, 1.0] in
\* every reachable state; set_recognition_threshold(t) stores t clamped to
\* that interval, 0.6 when t is None or no number, and no other operation
\* changes the threshold.
C19_ThresholdClamped ==
    /\ recognition_threshold = 6
    /\ [](recognition_threshold \in 1..10)
    /\ [][IF lastCall'.op = "set_recognition_threshold"
           THEN recognition_threshold' = Clamped(lastCall'.value)
           ELSE recognition_threshold' = recognition_threshold]_vars

\* 1.4 has been stored as 1.0, the Gallery holding an entry
C19_Witness ==
    /\ CalledOp("set_recognition_threshold")
    /\ lastCall.value = [kind |-> "number", tenths |-> 14]
    /\ recognition_threshold = 10
    /\ GallerySize = 1

(* Extraction Cache *)
\* C20: when a call that computes or loads the embedding of a photo with a
\* photo id reports success (train_from_*, add_existing_embedding,
\* batch_train_person, load_embeddings_from_database), that photo id is a
\* key of the Extraction Cache afterwards.
C20_CachePopulatedOnSuccess ==
    /\ (lastCall.op \in {"train_from_image", "train_from_bytes", "train_from_pil",
                         "add_existing_embedding"}
            /\ lastCall.ok /\ lastCall.photo # None)
          => lastCall.photo \in DOMAIN embedding_cache
    /\ CalledOp("batch_train_person")
          => lastCall.trained \subseteq DOMAIN embedding_cache
    /\ (CalledOp("load_embeddings_from_database") /\ lastCall.ok)
          => \A i \in 1..GallerySize : known_photo_ids[i] \in DOMAIN embedding_cache

(* Recognition of a frame *)
\* the faces detect_faces reports for the image of the last call
Faces == detect_faces(lastCall.frame)

\* the box of a face lies inside the image
Inside(image, face) ==
    /\ face.bbox[1] >= 0
    /\ face.bbox[2] >= 0
    /\ face.bbox[1] + face.bbox[3] <= image.width
    /\ face.bbox[2] + face.bbox[4] <= image.height

\* C21: for an image in which detect_faces reports k >= 1 faces whose boxes
\* lie inside the image, recognize_face_in_image returns k results, the
\* i-th carrying the box of the i-th face and the outcome of recognizing
\* the embedding of that face's region.
C21_EveryFaceRecognized ==
    (CalledOp("recognize_face_in_image")
        /\ Len(Faces) >= 1
        /\ \A i \in 1..Len(Faces) : Inside(lastCall.frame, Faces[i])) =>
        /\ Len(lastCall.results) = Len(Faces)
        /\ \A i \in 1..Len(Faces) :
              lastCall.results[i] =
                  face_result(lastCall.frame, Faces[i], lastCall.landmarks,
                              known_embeddings, known_ids, known_photo_ids,
                              recognition_threshold)

\* C22: recognize_face_in_image never raises; on an image in which no face
\* is detected, or for which detection fails, it returns the empty list.
C22_NoFaceGivesEmptyList ==
    CalledOp("recognize_face_in_image") =>
        /\ ~lastCall.raised
        /\ Len(Faces) = 0 => lastCall.results = <<>>

(* Standardization *)
\* e has mean 0 and standard deviation 1, or is the all-zero array a
\* constant array is standardized to: what _normalize_embedding returns
Standardized(e) == Mean2(e) = 0 /\ Std2(e) \in {0, 2}

\* C23: every embedding of the Gallery, whichever of train_from_*,
\* add_existing_embedding, batch_train_person and
\* load_embeddings_from_database admitted it, is standardized as
\* _normalize_embedding standardizes the query vectors.
C23_GalleryIsStandardized ==
    \A i \in 1..GallerySize : Standardized(known_embeddings[i])

(* batch_train_person, continued *)
\* C24: one batch_train_person call runs the extractor at most once on
\* each photo: the extractor runs are no more than the photos extracted.
C24_ExtractsOncePerPhoto ==
    CalledOp("batch_train_person") =>
        lastCall.extractions <= Cardinality(lastCall.extracted)

\* C25: the value batch_train_person returns is the number of entries the
\* call has appended to the Gallery, also when a Store call raises after
\* some photos were trained.
C25_BatchCountsAppended ==
    [][lastCall'.op = "batch_train_person" =>
          lastCall'.ret = Len(known_photo_ids') - Len(known_photo_ids)]_vars

(* Provisional identities *)
\* entry i was enrolled without a person id
Provisional(i) == known_names[i] = display_name(Guest)

\* C26: the id stored for an entry enrolled without a person id differs
\* from the id of every entry of a person of the Store, after any sequence
\* of inserts and removals.
C26_ProvisionalIdIsFresh ==
    \A i, j \in 1..GallerySize :
        (Provisional(i) /\ ~Provisional(j)) => known_ids[i] # known_ids[j]

(* Extraction Cache, continued *)
\* C27: in every reachable state every key of the Extraction Cache is the
\* photo id of an entry of the Gallery.
C27_CacheKeysAreGalleryPhotos ==
    DOMAIN embedding_cache \subseteq {known_photo_ids[i] : i \in 1..GallerySize}

(* Camera loop *)
\* C28: while the camera is active the recognition loop is alive: after
\* every handler, whatever frame update_camera has read, a next
\* update_camera is scheduled as long as stop_camera has not been called.
C28_LoopAliveWhileActive ==
    is_camera_active => pending >= 1

\* C29: at most one update_camera callback is scheduled at any time, for
\* every interleaving of start_camera, stop_camera and the timer.
C29_OneLoopAtMost ==
    pending <= 1

(* Deleted people *)
\* C30: once delete_selected_person or delete_current_person has deleted a
\* person, the Gallery holds no entry of that person and recognize_face
\* does not return that person's id.
C30_DeletedPersonNotInGallery ==
    /\ \A i \in 1..GallerySize :
          known_ids[i] \in PersonIds => db_people[known_ids[i]]
    /\ (CalledOp("recognize_face") /\ lastCall.result.id \in PersonIds)
          => db_people[lastCall.result.id]

====
